---- MODULE Spec2Model ----
(***************************************************************************)
(* Collapsible checklist sections (js-sample.js).                          *)
(*                                                                         *)
(* The page holds container elements that carry the classes 'container'    *)
(* and 'collapsible'; each has one pre child, named here after its         *)
(* container.  The state is the part of the DOM the script reads and       *)
(* writes: which containers are in the document, the 'active' class, the   *)
(* number of click handlers bound to each container, the display state of  *)
(* each pre, its jQuery fx queue, and jQuery's array of running animations *)
(* in the order of their start.  The browser either dispatches             *)
(* DOMNodeInserted events or, where mutation events are removed, never     *)
(* does.                                                                   *)
(***************************************************************************)
EXTENDS Integers, Sequences, FiniteSets, TLC

VARIABLES dom, ready, last, mutationEvents

vars == <<dom, ready, last, mutationEvents>>

\* Most click handlers one container may carry, and most queued slide
\* animations one pre may carry (the guards of the actions cap both).
MaxHandlers == 2
MaxQueue == 2

-----------------------------------------------------------------------------
\* The page's markup.  Every container carries both marker classes.
\*   outer : in the page at load, inside .checklist
\*   inner : in the page at load, a child container of outer
\*   dyn   : inserted into .checklist after the page is ready
\*   stray : in the page at load, outside any .checklist element
Containers == {"outer", "inner", "dyn", "stray"}
AtLoad == {"outer", "inner", "stray"}
NoParent == "none"

Parent(c) == IF c = "inner" THEN "outer" ELSE NoParent

InChecklist(c) == c # "stray"

\* What a click can land on inside a container: the container or a plain
\* child of it, its checkbox input, or its pre element.
Targets == {"container", "checkbox", "pre"}

\* Values of window.getSelection().toString().
Selections == {"", "text"}

\* The container elements from c up to the document root, c first: the path
\* a click inside c bubbles along.
RECURSIVE Path(_)
Path(c) == IF Parent(c) = NoParent THEN <<c>> ELSE <<c>> \o Path(Parent(c))

Enclosing(c) == {Path(c)[i] : i \in 2..Len(Path(c))}

Range(s) == {s[i] : i \in 1..Len(s)}

\* The containers in document order: a container's own pre comes before the
\* containers nested in it, and dyn is appended last.
DocOrder == <<"outer", "inner", "dyn", "stray">>

\* The elements of sequence s that are in S, in the order of s.
Keep(s, S) == SelectSeq(s, LAMBDA x : x \in S)

-----------------------------------------------------------------------------
\* $('.checklist .container.collapsible') : the selector of initCollapsible.
MatchesAnyMarked(d, c) == d.present[c]

Matches(d, c) == d.present[c] /\ InChecklist(c)

Selected(d) == {c \in Containers : Matches(d, c)}

\* $(x).find('pre') : every pre element below container c, those of the
\* containers nested in c included.
FindPre(d, c) == {p \in Containers : d.present[p] /\ c \in Range(Path(p))}

FindPreAll(d, S) == UNION {FindPre(d, c) : c \in S}

\* .hide() : display none at once; a running animation and the queue are
\* left as they are.
HideSkipsAnimating(d, S) ==
    [d EXCEPT !.display = [p \in Containers |->
        IF p \in S /\ d.queue[p] = 0 THEN FALSE ELSE d.display[p]]]

HideToggles(d, S) ==
    [d EXCEPT !.display = [p \in Containers |->
        IF p \in S THEN ~d.display[p] ELSE d.display[p]]]

Hide(d, S) ==
    [d EXCEPT !.display = [p \in Containers |->
        IF p \in S THEN FALSE ELSE d.display[p]]]

\* $container.on('click', ...) : one more handler on every element of S.
On(d, S) ==
    [d EXCEPT !.handlers = [c \in Containers |->
        IF c \in S THEN d.handlers[c] + 1 ELSE d.handlers[c]]]

\* The page with the container dyn appended below .checklist.
Inserted(d) == [d EXCEPT !.present["dyn"] = TRUE]

\* One run of initCollapsible.
InitCollapsibleAppends(d) ==
    Inserted(Hide(On(d, Selected(d)), FindPreAll(d, Selected(d))))

InitCollapsible(d) == Hide(On(d, Selected(d)), FindPreAll(d, Selected(d)))

\* The elements of the page below a .checklist element: the ones whose
\* insertion the delegated DOMNodeInserted handler is notified of.
Nodes(d) == {c \in Containers : d.present[c] /\ InChecklist(c)}

\* The DOMNodeInserted notifications a step from page d to page e raises:
\* one for each element that e has below .checklist and d has not.
NodesInserted(d, e) == Cardinality(Nodes(e) \ Nodes(d))

-----------------------------------------------------------------------------
\* The animation that starts on a pre whose display state is shown: a hidden
\* element is shown at once and slides open, a visible one slides shut and is
\* hidden when the animation is done.
StartKind(shown) == IF shown THEN "hide" ELSE "show"

\* .slideToggle(200) on every pre of S, in document order: the animation
\* joins the element's fx queue and, when the queue is empty, starts at once
\* and is pushed on jQuery's array of running animations.
SlideToggle(d, S) ==
    [d EXCEPT
        !.timers = d.timers \o Keep(DocOrder, {p \in S : d.queue[p] = 0}),
        !.queue = [p \in Containers |->
            IF p \in S THEN d.queue[p] + 1 ELSE d.queue[p]],
        !.anim = [p \in Containers |->
            IF p \in S /\ d.queue[p] = 0 THEN StartKind(d.display[p])
            ELSE d.anim[p]],
        !.display = [p \in Containers |->
            IF p \in S /\ d.queue[p] = 0 THEN TRUE ELSE d.display[p]]]

\* $(this).toggleClass('active')
ToggleClass(d, c) == [d EXCEPT !.active[c] = ~d.active[c]]

\* The guard of the click handler: the clicks it ignores.
IgnoredNoCheckbox(target, sel) == target = "pre" \/ sel # ""

IgnoredNoPre(target, sel) == target = "checkbox" \/ sel # ""

IgnoredNoSelection(target, sel) == target = "checkbox" \/ target = "pre"

Ignored(target, sel) == target = "checkbox" \/ target = "pre" \/ sel # ""

\* e.stopPropagation() is called by a handler that toggled.
NoStopPropagation == FALSE

StopPropagation == TRUE

\* One call of the click handler bound to container c.
Handler(d, c, target, sel) ==
    IF Ignored(target, sel)
    THEN [dom |-> d, stopped |-> FALSE]
    ELSE [dom |-> SlideToggle(ToggleClass(d, c), FindPre(d, c)),
          stopped |-> StopPropagation]

\* The n handlers bound to c run one after the other; stopPropagation does
\* not keep the other handlers of the same element from running.
RECURSIVE RunHandlers(_, _, _, _, _)
RunHandlers(r, c, n, target, sel) ==
    IF n = 0 THEN r
    ELSE LET h == Handler(r.dom, c, target, sel)
         IN RunHandlers([dom |-> h.dom, stopped |-> r.stopped \/ h.stopped],
                        c, n - 1, target, sel)

\* The click bubbles along path until a handler stopped it.
RECURSIVE Dispatch(_, _, _, _)
Dispatch(d, path, target, sel) ==
    IF path = <<>> THEN d
    ELSE LET c == Head(path)
             r == RunHandlers([dom |-> d, stopped |-> FALSE], c,
                              d.handlers[c], target, sel)
         IN IF r.stopped THEN r.dom
            ELSE Dispatch(r.dom, Tail(path), target, sel)

\* The page after a click on target inside container c.
ClickResult(d, c, target, sel) == Dispatch(d, Path(c), target, sel)

\* A click inside container c reaches a handler of the script.
Reaches(d, c) == \E a \in Range(Path(c)) : d.handlers[a] > 0

\* The running animation of pre p ends and the next one of its queue starts.
Complete(d, p) ==
    LET shown == IF d.anim[p] = "hide" THEN FALSE ELSE d.display[p]
        rest == d.queue[p] - 1
    IN [d EXCEPT
           !.queue[p] = rest,
           !.anim[p] = IF rest = 0 THEN "none" ELSE StartKind(shown),
           !.display[p] = IF rest = 0 THEN shown ELSE TRUE]

\* The animations of the pres of sequence s end, one after the other.
RECURSIVE CompleteEach(_, _)
CompleteEach(d, s) ==
    IF s = <<>> THEN d ELSE CompleteEach(Complete(d, Head(s)), Tail(s))

\* The k oldest running animations: all run 200 ms, so these end first.
Due(d, k) == SubSeq(d.timers, 1, k)

\* One tick of jQuery's fx timer that finds the k oldest running animations
\* at their end: each is taken off the array, and the animation that starts
\* from its pre's queue is pushed behind those still running.
FxTick(d, k) ==
    LET e == CompleteEach(d, Due(d, k))
        again == Keep(Due(d, k), {p \in Containers : e.queue[p] > 0})
        left == SubSeq(d.timers, k + 1, Len(d.timers))
    IN [e EXCEPT !.timers = left \o again]

\* The display state pre p settles in once its queue has run empty.
Settled(d, p) ==
    IF d.queue[p] = 0 THEN d.display[p]
    ELSE LET shown == IF d.anim[p] = "hide" THEN FALSE ELSE d.display[p]
         IN IF (d.queue[p] - 1) % 2 = 0 THEN shown ELSE ~shown

-----------------------------------------------------------------------------
\* The handler that last ran to its end: the ready handler, the
\* DOMNodeInserted handler, the click handler past its guard, or the fx
\* timer.  A click handler that returned at its guard is not recorded.
NoEvent == [kind |-> "load"]

Event(k) == [kind |-> k]

\* The document as parsed, before the ready handler has run: any choice of
\* the markup's containers, every pre shown, nothing bound.
Init ==
    /\ \E P \in SUBSET AtLoad :
          /\ ("inner" \in P => "outer" \in P)
          /\ dom = [present  |-> [c \in Containers |-> c \in P],
                    active   |-> [c \in Containers |-> FALSE],
                    handlers |-> [c \in Containers |-> 0],
                    display  |-> [c \in Containers |-> TRUE],
                    anim     |-> [c \in Containers |-> "none"],
                    queue    |-> [c \in Containers |-> 0],
                    timers   |-> <<>>]
    /\ ready = FALSE
    /\ mutationEvents \in BOOLEAN
    /\ last = NoEvent

\* $(document).ready(...): initCollapsible runs and the DOMNodeInserted
\* handler is bound.
Ready ==
    /\ ~ready
    /\ ready' = TRUE
    /\ dom' = InitCollapsible(dom)
    /\ last' = Event("ready")
    /\ UNCHANGED mutationEvents

CanInit(d) == \A c \in Selected(d) : d.handlers[c] < MaxHandlers

\* The DOMNodeInserted handler runs once for each of the n notifications
\* raised, those raised by what its own runs insert included; the result is
\* the page when none is left and the number of runs it took.
RECURSIVE HandleInserted(_, _)
HandleInserted(d, n) ==
    IF n = 0 THEN [dom |-> d, runs |-> 0]
    ELSE LET e == InitCollapsible(d)
             r == HandleInserted(e, n - 1 + NodesInserted(d, e))
         IN [dom |-> r.dom, runs |-> r.runs + 1]

\* The DOMNodeInserted handler is bound when the ready handler has run, and
\* runs when the browser dispatches the event.
Listening == ready /\ mutationEvents

\* A matching container is inserted below .checklist; where the
\* DOMNodeInserted handler is listening it runs initCollapsible, elsewhere
\* the container is in the page and no handler has run.
InsertContainer ==
    /\ ~dom.present["dyn"]
    /\ IF Listening
       THEN /\ CanInit(Inserted(dom))
            /\ dom' = HandleInserted(Inserted(dom),
                                     NodesInserted(dom, Inserted(dom))).dom
            /\ last' = Event("insert")
       ELSE /\ dom' = Inserted(dom)
            /\ UNCHANGED last
    /\ UNCHANGED <<ready, mutationEvents>>

\* Any other node is inserted below .checklist; where the DOMNodeInserted
\* handler is listening it runs initCollapsible, elsewhere nothing the
\* script reads has changed.
InsertOther ==
    IF Listening
    THEN /\ CanInit(dom)
         /\ dom' = HandleInserted(dom, 1).dom
         /\ last' = Event("reinit")
         /\ UNCHANGED <<ready, mutationEvents>>
    ELSE UNCHANGED vars

\* A click on target inside container c, with text selection sel; a click
\* that reaches no handler of the script, or that the handlers' guard
\* returns on, leaves everything as it is.
Click(c, target, sel) ==
    /\ dom.present[c]
    /\ IF Reaches(dom, c)
       THEN /\ LET d == ClickResult(dom, c, target, sel)
               IN /\ \A p \in Containers : d.queue[p] <= MaxQueue
                  /\ dom' = d
            /\ last' = IF Ignored(target, sel) THEN last ELSE Event("click")
            /\ UNCHANGED <<ready, mutationEvents>>
       ELSE UNCHANGED vars

\* jQuery's fx timer ticks when the k oldest running animations have
\* reached their end.
Tick(k) ==
    /\ k \in 1..Len(dom.timers)
    /\ dom' = FxTick(dom, k)
    /\ last' = Event("tick")
    /\ UNCHANGED <<ready, mutationEvents>>

Next ==
    \/ Ready
    \/ InsertContainer
    \/ InsertOther
    \/ \E c \in Containers, t \in Targets, s \in Selections : Click(c, t, s)
    \/ \E k \in 1..Cardinality(Containers) : Tick(k)

Spec == Init /\ [][Next]_vars

-----------------------------------------------------------------------------
TypeOK ==
    /\ dom.present \in [Containers -> BOOLEAN]
    /\ dom.active \in [Containers -> BOOLEAN]
    /\ dom.handlers \in [Containers -> 0..MaxHandlers]
    /\ dom.display \in [Containers -> BOOLEAN]
    /\ dom.anim \in [Containers -> {"none", "show", "hide"}]
    /\ dom.queue \in [Containers -> 0..MaxQueue]
    /\ dom.timers \in Seq(Containers)
    /\ \A p \in Containers :
          Cardinality({i \in 1..Len(dom.timers) : dom.timers[i] = p})
          = IF dom.queue[p] > 0 THEN 1 ELSE 0
    /\ ready \in BOOLEAN
    /\ mutationEvents \in BOOLEAN

-----------------------------------------------------------------------------
\* What the properties below read.  A property of a handler is stated on
\* every page the script reaches and every input of the handler, through the
\* operator the action applies.

\* The display state, running animation and queue length of pre p.
PreState(d, p) == <<d.display[p], d.anim[p], d.queue[p]>>

\* What shows of container c: its 'active' class and its pre.
Shows(d, c) == <<d.active[c], PreState(d, c)>>

\* Container c is in the document below a .checklist element.
BelowChecklist(d, c) == d.present[c] /\ InChecklist(c)

\* Container c is matched and initCollapsible has run over it.
Initialized(d, c) == BelowChecklist(d, c) /\ d.handlers[c] > 0

\* No element of the document matches the container selector.
NothingMatches(d) == \A c \in Containers : ~BelowChecklist(d, c)

\* The page after a click the guard lets through on container c.
Accepted(d, c) == ClickResult(d, c, "container", "")

\* The pages a run of initCollapsible finds: the page as it is, and the
\* page with dyn appended.
Notified(d) == {d, Inserted(d)}

\* What shows of every container, and what a click on it would then show.
Observable(d) ==
    [c \in Containers |-> <<Shows(d, c), Shows(Accepted(d, c), c)>>]

\* No animation is running or queued on any pre.
Quiescent(d) == \A p \in Containers : d.queue[p] = 0

-----------------------------------------------------------------------------
\* C1: a click the guard lets through, on a matched container that
\* initCollapsible has run over, flips the container's 'active' class and
\* flips the display state its pre settles in.
C1_ClickTogglesOnce ==
    [][\A c \in Containers :
          (Click(c, "container", "") /\ Initialized(dom, c))
          => /\ dom'.active[c] # dom.active[c]
             /\ Settled(dom', c) # Settled(dom, c)]_vars

\* C2: right after a run of initCollapsible the pre of every container that
\* carries the two marker classes is hidden.
C2_InitHidesEveryMarked ==
    \A d \in Notified(dom) :
        LET e == InitCollapsible(d)
        IN \A c \in Containers : d.present[c] => ~e.display[c]

\* C2, amended: right after a run of initCollapsible the pre of every
\* container that carries the two marker classes and lies below a .checklist
\* element is hidden, whatever it was before.
C2_InitHidesMatched ==
    \A d \in Notified(dom) :
        LET e == InitCollapsible(d)
        IN \A c \in Containers : BelowChecklist(d, c) => ~e.display[c]

\* A re-run has hidden a pre that was sliding open: shown before the run,
\* hidden after it.
C2_Witness ==
    /\ last.kind = "reinit"
    /\ \E c \in Containers :
          /\ BelowChecklist(dom, c) /\ ~dom.display[c]
          /\ dom.anim[c] = "show" /\ dom.queue[c] > 0

\* C3: once the inserted container dyn is in the page, it and the container
\* outer that was there at load answer a click alike: when both show the
\* same, both show the same after a click.
C3_InsertedBehavesLikeStatic ==
    (dom.present["dyn"] /\ dom.present["outer"]
        /\ Shows(dom, "dyn") = Shows(dom, "outer"))
    => Shows(Accepted(dom, "dyn"), "dyn") = Shows(Accepted(dom, "outer"), "outer")

\* C4: a click on a checkbox changes neither the 'active' class nor the pre
\* of the container it is in, nor of a container that encloses it.
C4_CheckboxClickIgnored ==
    \A c \in Containers, s \in Selections :
        dom.present[c]
        => LET d == ClickResult(dom, c, "checkbox", s)
           IN \A a \in Range(Path(c)) : Shows(d, a) = Shows(dom, a)

\* On a page with the nested container expanded, a click on its checkbox
\* leaves the page as it is, where a click beside the checkbox would not.
C4_Witness ==
    /\ Initialized(dom, "inner") /\ Initialized(dom, "outer")
    /\ dom.active["inner"] /\ dom.display["inner"]
    /\ ClickResult(dom, "inner", "checkbox", "") = dom
    /\ Accepted(dom, "inner") # dom

\* C5: a click made while the text selection is not empty changes neither
\* the 'active' class nor the pre of any container, whatever its target.
C5_SelectionClickIgnored ==
    \A c \in Containers, t \in Targets, s \in Selections \ {""} :
        dom.present[c]
        => LET d == ClickResult(dom, c, t, s)
           IN \A o \in Containers : Shows(d, o) = Shows(dom, o)

\* On a page with an expanded container, a click on it made with text
\* selected leaves the page as it is, where the same click with nothing
\* selected would not.
C5_Witness ==
    \E c \in Containers :
        /\ Initialized(dom, c) /\ dom.active[c] /\ dom.display[c]
        /\ ClickResult(dom, c, "container", "text") = dom
        /\ ClickResult(dom, c, "container", "") # dom

\* C6: a click on a pre element changes no 'active' class and no display
\* state and starts no animation, on its container and on the enclosing ones.
C6_PreClickIgnored ==
    \A c \in Containers, s \in Selections :
        dom.present[c]
        => LET d == ClickResult(dom, c, "pre", s)
           IN \A a \in Range(Path(c)) : Shows(d, a) = Shows(dom, a)

\* On a page with a container expanded and at rest, a click on its pre
\* leaves the page as it is and starts no animation, where a click beside
\* the pre would start one.
C6_Witness ==
    \E c \in Containers :
        /\ Initialized(dom, c)
        /\ dom.active[c] /\ dom.display[c] /\ dom.queue[c] = 0
        /\ ClickResult(dom, c, "pre", "") = dom
        /\ Accepted(dom, c).queue[c] > 0

\* C7: a further run of initCollapsible, or two, leaves a container that was
\* initialized before, and whose pre is hidden, hidden and with the 'active'
\* class it had.
C7_ReinitKeepsHidden ==
    \A d \in Notified(dom) :
        LET once == InitCollapsible(d)
            twice == InitCollapsible(once)
        IN \A c \in Containers :
              (Initialized(d, c) /\ ~d.display[c])
              => /\ ~once.display[c] /\ once.active[c] = d.active[c]
                 /\ ~twice.display[c] /\ twice.active[c] = d.active[c]

\* A re-run over a container that had been initialized, was expanded and is
\* hidden: it keeps its 'active' class.
C7_Witness ==
    /\ last.kind = "reinit"
    /\ \E c \in Containers :
          /\ dom.handlers[c] > 1
          /\ dom.active[c] /\ ~dom.display[c] /\ dom.queue[c] = 0

\* C8: running initCollapsible twice gives the page that running it once
\* gives: the same classes, the same display states, the same answer to a
\* click.
C8_InitIdempotent ==
    ready => Observable(InitCollapsible(InitCollapsible(dom)))
             = Observable(InitCollapsible(dom))

\* C9: a click the guard lets through inside a nested container is stopped
\* there: no enclosing container's 'active' class or pre changes.
C9_AcceptedClickStopsAtInner ==
    \A c \in Containers :
        Initialized(dom, c)
        => LET d == Accepted(dom, c)
           IN \A a \in Enclosing(c) : Shows(d, a) = Shows(dom, a)

\* An accepted click has just run inner's handler alone: inner's pre is
\* sliding, outer's is at rest.
C9_Witness ==
    /\ last.kind = "click"
    /\ Initialized(dom, "inner") /\ Initialized(dom, "outer")
    /\ dom.active["inner"] /\ dom.queue["inner"] > 0
    /\ ~dom.active["outer"] /\ dom.queue["outer"] = 0

\* C10: on a page where nothing matches the container selector, a run of
\* initCollapsible and a click leave the page as it was.
C10_NoMatchInert ==
    NothingMatches(dom)
    => /\ InitCollapsible(dom) = dom
       /\ HandleInserted(dom, 1).dom = dom
       /\ \A c \in Containers, t \in Targets, s \in Selections :
             dom.present[c] => ClickResult(dom, c, t, s) = dom

C10_Witness ==
    /\ last.kind = "reinit"
    /\ NothingMatches(dom) /\ dom.present["stray"]
    /\ dom.display["stray"] /\ dom.handlers["stray"] = 0

\* C11: every matched container that initCollapsible has run over carries
\* exactly one click handler of the script, however often it has run.
C11_OneHandlerPerContainer ==
    \A c \in Containers : Initialized(dom, c) => dom.handlers[c] = 1

\* C12: when no animation is in progress, a matched container that
\* initCollapsible has run over carries the 'active' class exactly when its
\* pre is shown.
C12_ActiveIffShown ==
    Quiescent(dom)
    => \A c \in Containers :
          Initialized(dom, c) => (dom.active[c] <=> dom.display[c])

\* C13: a click the guard lets through on container C changes the pre of C
\* alone: the 'active' class and the pre of every other container, those
\* nested in C included, stay as they were.
C13_ClickTouchesOwnPreOnly ==
    [][\A c \in Containers :
          (Click(c, "container", "") /\ Initialized(dom, c))
          => \A o \in Containers \ {c} : Shows(dom', o) = Shows(dom, o)]_vars

\* C14: a click the guard lets through makes the pre settle, once its
\* animations have run, in the display state opposite to the one it would
\* have settled in without the click (so that the settled state follows the
\* parity of the accepted clicks); from rest, opposite to the one it had.
C14_SettlesOpposite ==
    [][\A c \in Containers :
          (Click(c, "container", "") /\ Initialized(dom, c))
          => /\ Settled(dom', c) = ~Settled(dom, c)
             /\ dom.queue[c] = 0 => Settled(dom', c) = ~dom.display[c]]_vars

\* C15: handling a DOMNodeInserted notification raises no further one: a
\* run of initCollapsible leaves the elements below .checklist as they are,
\* so the notification of an insertion from outside is handled by one run
\* (every container matched gains one handler) and none is left to handle.
C15_InsertionHandledOnce ==
    \A d \in Notified(dom) :
        LET r == HandleInserted(d, 1)
        IN /\ r.runs = 1
           /\ NodesInserted(d, r.dom) = 0
           /\ \A c \in Containers :
                 BelowChecklist(d, c) => r.dom.handlers[c] = d.handlers[c] + 1

\* The insertion of dyn has been handled: the nested containers that were
\* there at load carry one handler more, dyn its first.
C15_Witness ==
    /\ last.kind = "insert"
    /\ dom.handlers["outer"] = 2 /\ dom.handlers["inner"] = 2
    /\ dom.handlers["dyn"] = 1

====
